---- MODULE Spec2Model ----
(***************************************************************************)
(* Laundromat Finder backend (src/main.py): the /api/search handler, its   *)
(* geocoding step, the Overpass query step and the normalisation of the    *)
(* returned elements.                                                      *)
(*                                                                         *)
(* Data representation                                                     *)
(*   - a Python str is the sequence of its code points (Seq(Nat)), so that *)
(*     concatenation is \o and comparison is Python's code-point order;    *)
(*   - Python None is None (where a str is expected) or Null (where a      *)
(*     number is expected);                                                *)
(*   - a Python dict is a function whose DOMAIN is the set of its keys;    *)
(*   - radius_km is counted in tenths of a kilometre.                      *)
(***************************************************************************)
EXTENDS Integers, Sequences, FiniteSets, TLC

VARIABLES pc, req, outbound, geoReply, center, overpassReply, response,
          tags, address

vars == <<pc, req, outbound, geoReply, center, overpassReply, response,
          tags, address>>

searchVars == <<pc, req, outbound, geoReply, center, overpassReply, response>>

addrVars == <<tags, address>>

-----------------------------------------------------------------------------
(* Bounds of the model *)

\* longest "elements" array an Overpass reply carries (single-request model)
MaxElements == 3

\* number of concurrent requests (concurrent model)
NumRequests == 3

\* outbound events one request may log (only a faulty handler reaches it)
MaxOutbound == 6

-----------------------------------------------------------------------------
(* Python values *)

None == <<-1>>

Null == -1000

\* bool(v) of an optional str: None and "" are falsy
Truthy(v) == v # None /\ v # <<>>

\* a or b
Or(a, b) == IF Truthy(a) THEN a ELSE b

\* dict.get(k) of a dict of strings
Get(d, k) == IF k \in DOMAIN d THEN d[k] ELSE None

\* dict.get(k) of a dict of numbers
GetNum(d, k) == IF k \in DOMAIN d THEN d[k] ELSE Null

Min(a, b) == IF a <= b THEN a ELSE b

\* Python's str comparison a < b: code-point lexicographic order
StrLt(a, b) ==
    \E i \in 1..(Min(Len(a), Len(b)) + 1) :
        /\ \A j \in 1..(i - 1) : a[j] = b[j]
        /\ \/ i > Len(a) /\ i <= Len(b)
           \/ i <= Len(a) /\ i <= Len(b) /\ a[i] < b[i]

StrLeq(a, b) == a = b \/ StrLt(a, b)

\* sep.join(parts)
RECURSIVE Join(_, _)
Join(sep, parts) ==
    IF parts = <<>> THEN <<>>
    ELSE IF Len(parts) = 1 THEN parts[1]
    ELSE parts[1] \o sep \o Join(sep, Tail(parts))

\* [p for p in parts if p]
RECURSIVE FilterTruthy(_)
FilterTruthy(parts) ==
    IF parts = <<>> THEN <<>>
    ELSE IF Truthy(parts[1]) THEN <<parts[1]>> \o FilterTruthy(Tail(parts))
    ELSE FilterTruthy(Tail(parts))

CommaSpace == <<44, 32>>

Space == <<32>>

-----------------------------------------------------------------------------
(* build_address, src/main.py:65-79 *)

StreetParts(t) ==
    LET num    == Get(t, "addr:housenumber")
        street == Get(t, "addr:street")
    IN  IF Truthy(street)
        THEN << (IF Truthy(num) THEN num \o Space ELSE <<>>) \o street >>
        ELSE <<>>

LocalityParts(t) ==
    LET city  == Or(Or(Get(t, "addr:city"), Get(t, "addr:town")), Get(t, "addr:village"))
        state == Or(Get(t, "addr:state"), Get(t, "addr:province"))
        locality == Join(CommaSpace, FilterTruthy(<<city, state>>))
    IN  IF Truthy(locality) THEN <<locality>> ELSE <<>>

PostcodeParts(t) ==
    LET postcode == Get(t, "addr:postcode")
    IN  IF Truthy(postcode) THEN <<postcode>> ELSE <<>>

build_address(t) ==
    LET parts == StreetParts(t) \o LocalityParts(t) \o PostcodeParts(t)
    IN  IF parts # <<>> THEN Join(CommaSpace, parts) ELSE None

\* addr = build_address(tags) or tags.get("addr:full"), src/main.py:144
\* (Python's  a or b  yields b, whatever it is, when a is falsy)
AddressOf(t) ==
    IF Truthy(build_address(t)) THEN build_address(t) ELSE Get(t, "addr:full")

-----------------------------------------------------------------------------
(* Strings of the program *)

\* "Laundromat", src/main.py:130
Laundromat == <<76, 97, 117, 110, 100, 114, 111, 109, 97, 116>>

\* "zzzz", src/main.py:160
Zzzz == <<122, 122, 122, 122>>

\* "node", src/main.py:132
NodeType == <<110, 111, 100, 101>>

\* "way": the other geometry kind the query of src/main.py:110-115 asks for
WayType == <<119, 97, 121>>

Slash == <<47>>

\* "https://www.openstreetmap.org/", src/main.py:156
OsmUrlPrefix ==
    <<104, 116, 116, 112, 115, 58, 47, 47, 119, 119, 119, 46, 111, 112, 101,
      110, 115, 116, 114, 101, 101, 116, 109, 97, 112, 46, 111, 114, 103, 47>>

\* str(n) of a natural number
RECURSIVE Str(_)
Str(n) == IF n < 10 THEN <<48 + n>> ELSE Str(n \div 10) \o <<48 + (n % 10)>>

-----------------------------------------------------------------------------
(* float(x) as geocode_location uses it, src/main.py:59-60.  The strings   *)
(* the model feeds it are decimal integers and non-numeric text.           *)

IsDigits(s) == Len(s) > 0 /\ \A i \in 1..Len(s) : s[i] \in 48..57

RECURSIVE DigitsValue(_)
DigitsValue(s) ==
    IF s = <<>> THEN 0
    ELSE 10 * DigitsValue(SubSeq(s, 1, Len(s) - 1)) + (s[Len(s)] - 48)

\* float(None) raises TypeError, float("x") raises ValueError
float(v) ==
    IF v = None THEN [ok |-> FALSE, error |-> "TypeError", value |-> Null]
    ELSE IF IsDigits(v) THEN [ok |-> TRUE, error |-> "", value |-> DigitsValue(v)]
    ELSE IF Len(v) > 1 /\ v[1] = 45 /\ IsDigits(Tail(v))
         THEN [ok |-> TRUE, error |-> "", value |-> 0 - DigitsValue(Tail(v))]
    ELSE [ok |-> FALSE, error |-> "ValueError", value |-> Null]

-----------------------------------------------------------------------------
(* geocode_location, src/main.py:47-62.  A reply is what requests.get      *)
(* produced: an exception (kind "timeout" or "unreachable") or a response  *)
(* with a status code and a JSON body.  The outcome is None, a center, or  *)
(* an exception that leaves the function.                                  *)

GeoNone == [kind |-> "none"]

GeoRaise(e) == [kind |-> "raise", error |-> e]

\* faulty variant: the status code is not looked at
geocode_location_NoStatusCheck(reply) ==
    IF reply.kind # "response" THEN GeoRaise(reply.kind)
    ELSE IF reply.data = <<>> THEN GeoNone
    ELSE LET item == reply.data[1]
             la   == float(Get(item, "lat"))
             lo   == float(Get(item, "lon"))
         IN  IF ~la.ok THEN GeoRaise(la.error)
             ELSE IF ~lo.ok THEN GeoRaise(lo.error)
             ELSE [kind |-> "center", lat |-> la.value, lon |-> lo.value,
                   display_name |-> Get(item, "display_name")]

geocode_location(reply) ==
    IF reply.kind # "response" THEN GeoRaise(reply.kind)
    ELSE IF reply.status # 200 THEN GeoNone
    ELSE IF reply.data = <<>> THEN GeoNone
    ELSE LET item == reply.data[1]
             la   == float(Get(item, "lat"))
             lo   == float(Get(item, "lon"))
         IN  IF ~la.ok THEN GeoRaise(la.error)
             ELSE IF ~lo.ok THEN GeoRaise(lo.error)
             ELSE [kind |-> "center", lat |-> la.value, lon |-> lo.value,
                   display_name |-> Get(item, "display_name")]

-----------------------------------------------------------------------------
(* Normalisation of one element, src/main.py:128-157 *)

EmptyDict == [k \in {} |-> None]

\* el.get("tags", {})
TagsOf(el) == IF "tags" \in DOMAIN el THEN el.tags ELSE EmptyDict

\* faulty variant: the direct coordinates are read for every geometry kind
CoordinatesDirect(el) == <<GetNum(el, "lat"), GetNum(el, "lon")>>

\* src/main.py:132-138: <<la, lo>>
Coordinates(el) ==
    IF el.type = NodeType
    THEN <<GetNum(el, "lat"), GetNum(el, "lon")>>
    ELSE LET center_obj == IF "center" \in DOMAIN el THEN el.center ELSE EmptyDict
         IN  <<GetNum(center_obj, "lat"), GetNum(center_obj, "lon")>>

\* src/main.py:139-140
Dropped(el) == Coordinates(el)[1] = Null \/ Coordinates(el)[2] = Null

\* f"{el.get('type')}/{el.get('id')}"
IdOf(el) == el.type \o Slash \o Str(el.id)

\* src/main.py:146-157
Normalize(el) ==
    LET t == TagsOf(el)
    IN  [id            |-> IdOf(el),
         name          |-> Or(Get(t, "name"), Laundromat),
         address       |-> AddressOf(t),
         lat           |-> Coordinates(el)[1],
         lon           |-> Coordinates(el)[2],
         distance_km   |-> Null,
         opening_hours |-> Get(t, "opening_hours"),
         phone         |-> Or(Get(t, "phone"), Get(t, "contact:phone")),
         website       |-> Or(Get(t, "website"), Get(t, "contact:website")),
         osm_url       |-> OsmUrlPrefix \o IdOf(el)]

\* the loop of src/main.py:127-157
RECURSIVE NormalizeAll(_)
NormalizeAll(elements) ==
    IF elements = <<>> THEN <<>>
    ELSE IF Dropped(elements[1]) THEN NormalizeAll(Tail(elements))
    ELSE <<Normalize(elements[1])>> \o NormalizeAll(Tail(elements))

-----------------------------------------------------------------------------
(* sorted(results, key=...)[:max_results], src/main.py:160 *)

\* key=lambda x: (x["name"] or "zzzz")
SortKey(x) == Or(x.name, Zzzz)

\* sorted() is stable: x goes after every entry whose key is <= its own
RECURSIVE InsertSorted(_, _)
InsertSorted(x, s) ==
    IF s = <<>> THEN <<x>>
    ELSE IF StrLt(SortKey(x), SortKey(s[1])) THEN <<x>> \o s
    ELSE <<s[1]>> \o InsertSorted(x, Tail(s))

RECURSIVE Sorted(_)
Sorted(s) ==
    IF s = <<>> THEN <<>>
    ELSE InsertSorted(s[Len(s)], Sorted(SubSeq(s, 1, Len(s) - 1)))

\* s[:n] for n >= 0
Take(s, n) == SubSeq(s, 1, Min(n, Len(s)))

\* faulty variant: the slice is forgotten
SortNoLimit(results, max_results) == Sorted(results)

\* faulty variant: the slice is taken before the sort
LimitThenSort(results, max_results) == Sorted(Take(results, max_results))

SortAndLimit(results, max_results) == Take(Sorted(results), max_results)

\* src/main.py:124-125: data.get("elements", [])
ElementsOf(data) == IF "elements" \in DOMAIN data THEN data.elements ELSE <<>>

\* src/main.py:162-166
SearchResponse(c, results) ==
    [status |-> 200, center |-> c, count |-> Len(results), results |-> results]

-----------------------------------------------------------------------------
(* Request validation, src/main.py:90-92: FastAPI checks the Query bounds  *)
(* before it calls the handler.  Radii are in tenths of a kilometre.       *)

\* ge=0.5
RadiusMinTenths == 5

\* le=50.0
RadiusMaxTenths == 500

\* ge=1
MaxResultsMin == 1

\* le=100
MaxResultsMax == 100

ValidRadius(radius) == RadiusMinTenths <= radius /\ radius <= RadiusMaxTenths

ValidMaxResults(max_results) ==
    MaxResultsMin <= max_results /\ max_results <= MaxResultsMax

\* faulty variant: max_results carries no bounds
ValidateRadiusOnly(radius, max_results) == ValidRadius(radius)

Validate(radius, max_results) == ValidRadius(radius) /\ ValidMaxResults(max_results)

-----------------------------------------------------------------------------
(* HTTP outcomes of one request *)

NoResponse == [status |-> 0]

\* FastAPI's answer to a parameter that fails validation
Unprocessable == [status |-> 422]

\* src/main.py:98
LocationNotFound == [status |-> 404, detail |-> "Location not found. Try a different search."]

\* src/main.py:122
UpstreamError ==
    [status |-> 502, detail |-> "Upstream map service error. Please try again later."]

\* an exception nothing in src/main.py catches leaves the handler
InternalError(e) == [status |-> 500, error |-> e]

NoReply == [kind |-> "none"]

NoCenter == [kind |-> "none"]

\* faulty variant: a geocoding miss is tried again
AfterGeocodeRetry(result) ==
    IF result.kind = "raise" THEN [pc |-> "done", response |-> InternalError(result.error)]
    ELSE IF result.kind = "none" THEN [pc |-> "geocode", response |-> NoResponse]
    ELSE [pc |-> "overpass", response |-> NoResponse]

\* src/main.py:96-98: what the handler does with geocode_location's outcome
AfterGeocode(result) ==
    IF result.kind = "raise" THEN [pc |-> "done", response |-> InternalError(result.error)]
    ELSE IF result.kind = "none" THEN [pc |-> "done", response |-> LocationNotFound]
    ELSE [pc |-> "overpass", response |-> NoResponse]

\* src/main.py:120-166: what the handler does with the reply of requests.post
AfterOverpass(reply, c, max_results) ==
    IF reply.kind # "response" THEN InternalError(reply.kind)
    ELSE IF reply.status # 200 THEN UpstreamError
    ELSE SearchResponse(c, SortAndLimit(NormalizeAll(ElementsOf(reply.data)), max_results))

\* faulty variant: center is one module-level variable, so a request reads
\* the center of the highest-numbered request that has geocoded so far
CenterShared(r) ==
    LET geocoded == {q \in DOMAIN center : center[q] # NoCenter}
    IN  center[CHOOSE q \in geocoded : \A o \in geocoded : o <= q]

\* the handler's local variable center, src/main.py:96
CenterOf(r) == center[r]

-----------------------------------------------------------------------------
(* The handler search_laundromats, one step per blocking call *)

Requests == 1..NumRequests

\* the request arrives with its query parameters
Receive(r, q, radius, max_results) ==
    /\ pc[r] = "idle"
    /\ req' = [req EXCEPT ![r] = [query |-> q, radius |-> radius, max_results |-> max_results]]
    /\ IF Validate(radius, max_results)
       THEN /\ pc' = [pc EXCEPT ![r] = "geocode"]
            /\ UNCHANGED response
       ELSE /\ pc' = [pc EXCEPT ![r] = "done"]
            /\ response' = [response EXCEPT ![r] = Unprocessable]
    /\ UNCHANGED <<outbound, geoReply, center, overpassReply, addrVars>>

\* requests.get(...) is issued, src/main.py:51
GeocodeCall(r) ==
    /\ pc[r] = "geocode"
    /\ Len(outbound[r]) < MaxOutbound
    /\ outbound' = [outbound EXCEPT ![r] = Append(@, "geocode_call")]
    /\ pc' = [pc EXCEPT ![r] = "geocode_wait"]
    /\ UNCHANGED <<req, geoReply, center, overpassReply, response, addrVars>>

\* requests.get returns or raises; src/main.py:52-62 and 96-102
GeocodeReturn(r, reply) ==
    /\ pc[r] = "geocode_wait"
    /\ outbound' = [outbound EXCEPT ![r] = Append(@, "geocode_return")]
    /\ geoReply' = [geoReply EXCEPT ![r] = reply]
    /\ LET result == geocode_location(reply)
           next   == AfterGeocode(result)
       IN  /\ pc' = [pc EXCEPT ![r] = next.pc]
           /\ response' = [response EXCEPT ![r] = next.response]
           /\ center' = [center EXCEPT ![r] =
                            IF result.kind = "center"
                            THEN [lat |-> result.lat, lon |-> result.lon,
                                  display_name |-> result.display_name]
                            ELSE @]
    /\ UNCHANGED <<req, overpassReply, addrVars>>

\* requests.post(...) is issued, src/main.py:120
OverpassCall(r) ==
    /\ pc[r] = "overpass"
    /\ Len(outbound[r]) < MaxOutbound
    /\ outbound' = [outbound EXCEPT ![r] = Append(@, "overpass_call")]
    /\ pc' = [pc EXCEPT ![r] = "overpass_wait"]
    /\ UNCHANGED <<req, geoReply, center, overpassReply, response, addrVars>>

\* requests.post returns or raises; src/main.py:121-166
OverpassReturn(r, reply) ==
    /\ pc[r] = "overpass_wait"
    /\ outbound' = [outbound EXCEPT ![r] = Append(@, "overpass_return")]
    /\ overpassReply' = [overpassReply EXCEPT ![r] = reply]
    /\ response' = [response EXCEPT ![r] = AfterOverpass(reply, CenterOf(r), req[r].max_results)]
    /\ pc' = [pc EXCEPT ![r] = "done"]
    /\ UNCHANGED <<req, geoReply, center, addrVars>>

-----------------------------------------------------------------------------
(* The environment: request parameters and upstream replies *)

Queries == {"Springfield"}

\* 0.4, 0.5, 50.0 and 50.1 km
Radii == {RadiusMinTenths - 1, RadiusMinTenths, RadiusMaxTenths, RadiusMaxTenths + 1}

MaxResultsValues ==
    {MaxResultsMin - 1, MaxResultsMin, MaxResultsMin + 1, MaxResultsMax, MaxResultsMax + 1}

\* every sequence over S of length at most n
BoundedSeq(S, n) == UNION {[1..k -> S] : k \in 0..n}

\* Nominatim matches: lat "1", lon "2", "P"; lat "-3", lon "4", "Q"; and
\* matches whose lat or lon is missing or is the text "x"
GeoGood == [lat |-> <<49>>, lon |-> <<50>>, display_name |-> <<80>>]

GeoGoodOther == [lat |-> <<45, 51>>, lon |-> <<52>>, display_name |-> <<81>>]

GeoMalformed ==
    { [lon |-> <<50>>, display_name |-> <<80>>],
      [lat |-> <<49>>, display_name |-> <<80>>],
      [lat |-> <<120>>, lon |-> <<50>>, display_name |-> <<80>>],
      [lat |-> <<49>>, lon |-> <<120>>, display_name |-> <<80>>] }

GeoBodies ==
    {<<>>, <<GeoGood>>, <<GeoGoodOther>>, <<GeoGood, GeoGoodOther>>}
      \cup {<<m>> : m \in GeoMalformed}

Failures == {[kind |-> "timeout"], [kind |-> "unreachable"]}

GeoReplies ==
    Failures \cup [kind : {"response"}, status : {200, 500}, data : GeoBodies]

\* strings "A", "B", "a" and the empty string
NameA == <<65>>

NameB == <<66>>

NameLowerA == <<97>>

\* elements an Overpass reply may carry: points and areas, with and without
\* their coordinates, their centroid, their tags and their name
ElementSet ==
    { [type |-> NodeType, id |-> 1, lat |-> 1, lon |-> 2,
       tags |-> [name |-> NameB, phone |-> <<53>>]],
      [type |-> NodeType, id |-> 2, lon |-> 2, tags |-> [name |-> NameA]],
      [type |-> WayType, id |-> 3, center |-> [lat |-> 0 - 5, lon |-> 6],
       tags |-> [name |-> NameLowerA]],
      [type |-> WayType, id |-> 4, lat |-> 7, lon |-> 8, tags |-> [name |-> NameA]],
      [type |-> NodeType, id |-> 5, lat |-> 0, lon |-> 0,
       tags |-> [name |-> <<>>, website |-> <<>>]],
      [type |-> WayType, id |-> 6, center |-> [lat |-> 5]],
      [type |-> NodeType, id |-> 12, lat |-> 3, lon |-> 4, center |-> [lat |-> 9, lon |-> 9],
       tags |-> [name |-> NameA]] }

OverpassBodies ==
    {[generator |-> "Overpass API"]}
      \cup [generator : {"Overpass API"}, elements : BoundedSeq(ElementSet, MaxElements)]

OverpassReplies ==
    Failures
      \cup [kind : {"response"}, status : {429, 504}, data : {[generator |-> "Overpass API"]}]
      \cup [kind : {"response"}, status : {200}, data : OverpassBodies]

-----------------------------------------------------------------------------
(* Spec: one request, every reply the environment can give *)

Pending == <<-2>>

InitSearch ==
    /\ pc = [r \in Requests |-> "idle"]
    /\ req = [r \in Requests |-> [query |-> "", radius |-> 0, max_results |-> 0]]
    /\ outbound = [r \in Requests |-> <<>>]
    /\ geoReply = [r \in Requests |-> NoReply]
    /\ center = [r \in Requests |-> NoCenter]
    /\ overpassReply = [r \in Requests |-> NoReply]
    /\ response = [r \in Requests |-> NoResponse]

Init ==
    /\ InitSearch
    /\ tags = EmptyDict
    /\ address = Pending

Next ==
    \/ \E q \in Queries, radius \in Radii, max_results \in MaxResultsValues :
          Receive(1, q, radius, max_results)
    \/ GeocodeCall(1)
    \/ \E reply \in GeoReplies : GeocodeReturn(1, reply)
    \/ OverpassCall(1)
    \/ \E reply \in OverpassReplies : OverpassReturn(1, reply)

Spec == Init /\ [][Next]_vars

-----------------------------------------------------------------------------
(* Vocabulary of the properties *)

Done(r) == pc[r] = "done"

Count(s, x) == Cardinality({i \in DOMAIN s : s[i] = x})

Range(s) == {s[i] : i \in DOMAIN s}

Succeeded(r) == Done(r) /\ response[r].status = 200

GeocodeAnswered(r) == geoReply[r] # NoReply

OverpassAnswered(r) == overpassReply[r] # NoReply

\* the geocoding call returned a non-success status or zero matches
GeocodeMiss(reply) ==
    reply.kind = "response" /\ (reply.status # 200 \/ reply.data = <<>>)

\* the call succeeded with a match whose lat or lon is missing or not a number
GeocodeMalformed(reply) ==
    /\ reply.kind = "response"
    /\ reply.status = 200
    /\ reply.data # <<>>
    /\ \/ ~float(Get(reply.data[1], "lat")).ok
       \/ ~float(Get(reply.data[1], "lon")).ok

\* the spatial call failed: non-success status, unreachable, or timed out
OverpassFailed(reply) ==
    reply.kind \in {"timeout", "unreachable"}
      \/ (reply.kind = "response" /\ reply.status # 200)

\* the elements of the reply that survive normalisation, in reply order
Survivors(r) == NormalizeAll(ElementsOf(overpassReply[r].data))

-----------------------------------------------------------------------------
\* C1: a request whose geocoding call returns a non-success status or zero
\* matches ends with 404 (LocationNotFound) and never issues a spatial query.
C1_MissIsNotFoundWithoutSpatialQuery ==
    \A r \in Requests :
        (GeocodeAnswered(r) /\ GeocodeMiss(geoReply[r]))
            => /\ Done(r)
               /\ response[r].status = 404
               /\ Count(outbound[r], "overpass_call") = 0

C1_Witness ==
    \E r \in Requests :
        /\ Done(r)
        /\ GeocodeAnswered(r)
        /\ geoReply[r].kind = "response"
        /\ geoReply[r].status # 200
        /\ geoReply[r].data # <<>>
        /\ response[r].status = 404

\* C2: a successful geocoding reply whose first match has a missing or
\* unparseable lat or lon ends the search with 404 and no other error kind.
C2_MalformedIsNotFound ==
    \A r \in Requests :
        (GeocodeAnswered(r) /\ GeocodeMalformed(geoReply[r]))
            => (Done(r) /\ response[r].status = 404)

\* C3: after a successful geocode, a failed spatial call (non-success status,
\* unreachable, timed out) ends the search with 502, never with a
\* SearchResponse and never with another error kind.
C3_SpatialFailureIsUpstreamError ==
    \A r \in Requests :
        (OverpassAnswered(r) /\ OverpassFailed(overpassReply[r]))
            => (Done(r) /\ response[r].status = 502)

\* C4: a request with radius_km outside [0.5, 50.0] or max_results outside
\* [1, 100] is rejected and makes neither upstream call.
C4_OutOfRangeRejectedBeforeUpstream ==
    \A r \in Requests :
        (pc[r] # "idle"
           /\ ~(req[r].radius \in 5..500 /\ req[r].max_results \in 1..100))
            => /\ Done(r)
               /\ response[r].status = 422
               /\ outbound[r] = <<>>

C4_Witness ==
    \E r \in Requests :
        /\ Done(r)
        /\ req[r].radius \in 5..500
        /\ req[r].max_results = 101
        /\ response[r].status = 422

\* C5: in every successful response, len(results) <= max_results and
\* count = len(results), however many elements upstream returned.
C5_CountAndCap ==
    \A r \in Requests :
        Succeeded(r)
            => /\ Len(response[r].results) <= req[r].max_results
               /\ response[r].count = Len(response[r].results)

C5_Witness ==
    \E r \in Requests :
        /\ Succeeded(r)
        /\ Len(ElementsOf(overpassReply[r].data)) > req[r].max_results
        /\ Len(Survivors(r)) > req[r].max_results
        /\ response[r].count = req[r].max_results

\* the coordinates that apply to an element are there: the direct ones of a
\* point, the centroid's of an area
HasApplicableCoordinates(el) ==
    IF el.type = NodeType
    THEN {"lat", "lon"} \subseteq DOMAIN el
    ELSE "center" \in DOMAIN el /\ {"lat", "lon"} \subseteq DOMAIN el.center

\* result x carries the applicable coordinates of element el
CarriesCoordinatesOf(x, el) ==
    /\ x.id = IdOf(el)
    /\ HasApplicableCoordinates(el)
    /\ IF el.type = NodeType
       THEN x.lat = el.lat /\ x.lon = el.lon
       ELSE x.lat = el.center.lat /\ x.lon = el.center.lon

\* C6: every result has non-null latitude and longitude and a null
\* distance_km; a point contributes its direct coordinates, an area its
\* centroid's; an element without its applicable coordinates is left out and
\* the search still succeeds.
C6_CoordinatesOrDropped ==
    \A r \in Requests :
        (OverpassAnswered(r) /\ ~OverpassFailed(overpassReply[r]))
            => LET elements == ElementsOf(overpassReply[r].data)
                   kept     == {i \in DOMAIN elements : HasApplicableCoordinates(elements[i])}
                   results  == response[r].results
               IN  /\ Succeeded(r)
                   /\ Len(results) = Min(req[r].max_results, Cardinality(kept))
                   /\ \A i \in DOMAIN results :
                         /\ results[i].lat # Null
                         /\ results[i].lon # Null
                         /\ results[i].distance_km = Null
                         /\ \E k \in kept : CarriesCoordinatesOf(results[i], elements[k])

C6_Witness ==
    \E r \in Requests :
        /\ Succeeded(r)
        /\ LET elements == ElementsOf(overpassReply[r].data)
           IN  /\ \E i \in DOMAIN elements : ~HasApplicableCoordinates(elements[i])
               /\ \E i \in DOMAIN response[r].results, k \in DOMAIN elements :
                     /\ elements[k].type = NodeType
                     /\ CarriesCoordinatesOf(response[r].results[i], elements[k])
               /\ \E i \in DOMAIN response[r].results, k \in DOMAIN elements :
                     /\ elements[k].type = WayType
                     /\ CarriesCoordinatesOf(response[r].results[i], elements[k])

\* how many entries of s have a name below n
NamesBelow(s, n) == Cardinality({i \in DOMAIN s : StrLt(s[i].name, n)})

\* C7: results are in ascending case-sensitive name order and are the first
\* max_results entries of the name-sorted survivors (sort, then truncate).
C7_SortedThenTruncated ==
    \A r \in Requests :
        Succeeded(r)
            => LET results == response[r].results
                   all     == Survivors(r)
                   cap     == req[r].max_results
               IN  /\ \A i \in 1..(Len(results) - 1) :
                         StrLeq(results[i].name, results[i + 1].name)
                   /\ Len(results) = Min(cap, Len(all))
                   /\ Range(results) \subseteq Range(all)
                   /\ \A j \in DOMAIN all :
                         NamesBelow(results, all[j].name)
                             = Min(cap, NamesBelow(all, all[j].name))

C7_Witness ==
    \E r \in Requests :
        /\ Succeeded(r)
        /\ Len(Survivors(r)) > req[r].max_results
        /\ Len(response[r].results) > 1
        /\ StrLt(NameB, Survivors(r)[1].name)
        /\ StrLt(Survivors(r)[Len(Survivors(r))].name, NameB)
        /\ response[r].results[1].name = NameA

\* the request ended with an error after an upstream call failed
FailedUpstream(r) ==
    \/ GeocodeAnswered(r) /\ geocode_location(geoReply[r]).kind # "center"
    \/ OverpassAnswered(r) /\ OverpassFailed(overpassReply[r])

\* C9: at most one geocoding call and one spatial call per request, the
\* spatial call only after the geocoding call has returned, and after an
\* upstream failure the request ends with its error and calls nothing more.
C9_OneCallEachInOrderNoRetry ==
    \A r \in Requests :
        /\ Count(outbound[r], "geocode_call") <= 1
        /\ Count(outbound[r], "overpass_call") <= 1
        /\ \A i \in DOMAIN outbound[r] :
              outbound[r][i] = "overpass_call"
                  => \E j \in 1..(i - 1) : outbound[r][j] = "geocode_return"
        /\ FailedUpstream(r)
              => /\ Done(r)
                 /\ response[r].status \in {404, 500, 502}
                 /\ outbound[r][Len(outbound[r])] \in {"geocode_return", "overpass_return"}
                 /\ Len(outbound[r]) = IF OverpassAnswered(r) THEN 4 ELSE 2

C9_Witness ==
    \E r \in Requests :
        /\ Done(r)
        /\ OverpassAnswered(r)
        /\ OverpassFailed(overpassReply[r])
        /\ outbound[r] = <<"geocode_call", "geocode_return", "overpass_call", "overpass_return">>

-----------------------------------------------------------------------------
(* SpecConc: NumRequests requests run the handler concurrently, their      *)
(* steps interleaved in every order, against a small set of replies.       *)

ConcMaxResults == {MaxResultsMin, MaxResultsMin + 1}

ConcGeoReplies ==
    [kind : {"response"}, status : {200}, data : {<<GeoGood>>, <<GeoGoodOther>>}]

ConcElements ==
    { << [type |-> NodeType, id |-> 1, lat |-> 1, lon |-> 2, tags |-> [name |-> NameB]],
         [type |-> WayType, id |-> 3, center |-> [lat |-> 5, lon |-> 6],
          tags |-> [name |-> NameA]] >> }

ConcOverpassReplies ==
    [kind : {"response"}, status : {504}, data : {[generator |-> "Overpass API"]}]
      \cup [kind : {"response"}, status : {200},
            data : [generator : {"Overpass API"}, elements : ConcElements]]

NextConc ==
    \E r \in Requests :
        \/ \E max_results \in ConcMaxResults :
              Receive(r, "Springfield", 10 * RadiusMinTenths, max_results)
        \/ GeocodeCall(r)
        \/ \E reply \in ConcGeoReplies : GeocodeReturn(r, reply)
        \/ OverpassCall(r)
        \/ \E reply \in ConcOverpassReplies : OverpassReturn(r, reply)

SpecConc == Init /\ [][NextConc]_vars

\* C10: under every interleaving, the outcome of a request is determined by
\* its own parameters and the replies to its own two calls: two requests with
\* the same parameters and the same replies end with the same response.
C10_RequestsIndependent ==
    \A r1 \in Requests, r2 \in Requests :
        (Done(r1) /\ Done(r2)
           /\ req[r1] = req[r2]
           /\ geoReply[r1] = geoReply[r2]
           /\ overpassReply[r1] = overpassReply[r2])
            => response[r1] = response[r2]

C10_Witness ==
    \E r1 \in Requests, r2 \in Requests, r3 \in Requests :
        /\ r1 # r2
        /\ Succeeded(r1) /\ Succeeded(r2) /\ Succeeded(r3)
        /\ req[r1] = req[r2]
        /\ geoReply[r1] = geoReply[r2]
        /\ overpassReply[r1] = overpassReply[r2]
        /\ geoReply[r3] # geoReply[r1]
        /\ response[r3].center # response[r1].center
        /\ response[r1].count > 0

-----------------------------------------------------------------------------
(* SpecAddr: the address of one element, src/main.py:144, for every tag    *)
(* mapping over the address keys in which a key is absent, empty or set    *)

AddrKeys ==
    {"addr:housenumber", "addr:street", "addr:city", "addr:town", "addr:village",
     "addr:state", "addr:province", "addr:postcode", "addr:full"}

\* "12", "Elm", "Ayr", "Bo", "Cy", "DE", "ON", "907", "1 Rd"
TagValue(k) ==
    CASE k = "addr:housenumber" -> <<49, 50>>
      [] k = "addr:street"      -> <<69, 108, 109>>
      [] k = "addr:city"        -> <<65, 121, 114>>
      [] k = "addr:town"        -> <<66, 111>>
      [] k = "addr:village"     -> <<67, 121>>
      [] k = "addr:state"       -> <<68, 69>>
      [] k = "addr:province"    -> <<79, 78>>
      [] k = "addr:postcode"    -> <<57, 48, 55>>
      [] k = "addr:full"        -> <<49, 32, 82, 100>>

TagMappings ==
    UNION { { [k \in D |-> IF k \in E THEN <<>> ELSE TagValue(k)] : E \in SUBSET D } :
              D \in SUBSET AddrKeys }

InitAddr ==
    /\ InitSearch
    /\ tags \in TagMappings
    /\ address = Pending

\* addr = build_address(tags) or tags.get("addr:full")
ComputeAddress ==
    /\ address = Pending
    /\ address' = AddressOf(tags)
    /\ UNCHANGED <<tags, searchVars>>

NextAddr == ComputeAddress

SpecAddr == InitAddr /\ [][NextAddr]_vars

\* tag k is there with a non-empty value
Present(k) == k \in DOMAIN tags /\ tags[k] # <<>>

FirstPresent(keys) ==
    IF \E i \in DOMAIN keys : Present(keys[i])
    THEN <<tags[keys[CHOOSE i \in DOMAIN keys :
                        Present(keys[i]) /\ \A j \in 1..(i - 1) : ~Present(keys[j])]]>>
    ELSE <<>>

\* the segments of the address as the specification lists them
ClaimedSegments ==
    LET street   == IF Present("addr:street")
                    THEN IF Present("addr:housenumber")
                         THEN <<tags["addr:housenumber"] \o Space \o tags["addr:street"]>>
                         ELSE <<tags["addr:street"]>>
                    ELSE <<>>
        locality == FirstPresent(<<"addr:city", "addr:town", "addr:village">>)
                      \o FirstPresent(<<"addr:state", "addr:province">>)
        postcode == FirstPresent(<<"addr:postcode">>)
    IN  street
          \o (IF locality # <<>> THEN <<Join(CommaSpace, locality)>> ELSE <<>>)
          \o postcode

\* C8: the address is the present segments (street line, locality line,
\* postcode) joined by ", "; with no segment it is the addr:full tag when
\* present and otherwise null, and it is never an empty string.
C8_AddressSegmentsOrFullOrNull ==
    address # Pending
        => /\ address # <<>>
           /\ address = IF ClaimedSegments # <<>> THEN Join(CommaSpace, ClaimedSegments)
                        ELSE IF Present("addr:full") THEN tags["addr:full"]
                        ELSE None

\* what does hold of the code: the claim's address, except that an empty
\* addr:full tag comes through as the empty string
C8_HoldsExceptEmptyFull ==
    address # Pending
        => address = IF ClaimedSegments # <<>> THEN Join(CommaSpace, ClaimedSegments)
                     ELSE Get(tags, "addr:full")

====
